---- MODULE Spec2Model ----
(***************************************************************************)
(* A model of forgetful-savant: the 4x4 matrix / 4-vector library, the     *)
(* component registry, the Sprite component, the GLWrapper renderer and    *)
(* the frame loop of index.ts.                                             *)
(*                                                                         *)
(* Conventions.  A JavaScript array is a function on 0..n-1, so that the   *)
(* indices of the model are the indices of the code.  Matrix and vector    *)
(* entries are integers; the sizes computed by the resize listener and the *)
(* entries of the projection matrix are exact fractions.  An angle is a    *)
(* number of quarter turns (r = q * PI/2), where Math.sin and Math.cos are *)
(* taken to be exactly -1, 0 or 1.                                         *)
(***************************************************************************)
EXTENDS Integers, Sequences, FiniteSets, TLC

VARIABLES
  \* the matrix / vector library driven call by call
  mpc,      \* position of the caller: "first", "second", "mul", "done", "vec", "threw"
  slotA,    \* the left operand: the call that built it and the instance, if any
  slotB,    \* the right operand
  mR,       \* the matrix returned by slotA.mul(slotB)
  vLast,    \* the Vector built by the caller
  \* the component registry driven call by call
  components, \* ComponentManager.components
  added,      \* history: the arguments of the add calls so far, in call order
  lastGet,    \* the latest get call: its type, the number of adds before it, its result
  \* one Sprite driven call by call, drawing to a recording renderer
  sprite,     \* the Sprite: its fields, or no instance yet
  drawn,      \* the renderer.draw calls made by the latest Sprite.draw
  \* the program of index.ts in its page
  pc,         \* where main, the GLWrapper constructor or the frame loop stands
  winW, winH, \* window.innerWidth, window.innerHeight
  canvas,     \* the canvas: width, height, style.width, style.height
  handler,    \* the resize listener is installed
  glReady,    \* main holds a GLWrapper (the constructor returned)
  uniforms,   \* the GL program's uniform values
  steps,      \* history: the constructor steps entered, in order
  failedAt,   \* history: the constructor step that threw, or "none"
  glInit,     \* history: the GL commands issued by the constructor
  glFrame,    \* history: the GL commands issued by the current run of loop
  frame,      \* history: clear / draw / flush / raf of the current run of loop
  drawList,   \* the array comManager.get(Sprite) being iterated by forEach
  drawIdx,    \* forEach's index into drawList
  rafPending, \* requestAnimationFrame(loop) is waiting for the next refresh
  \* one TypingManager driven call by call
  isSubmitted, \* TypingManager.isSubmitted
  bufferCalls, \* the calls the latest operation made on TypingManager.buffer
  tmCall       \* history: the latest operation, its keys, isSubmitted before it

matVars == <<mpc, slotA, slotB, mR, vLast>>
cmVars == <<components, added, lastGet>>
spVars == <<sprite, drawn>>
tmVars == <<isSubmitted, bufferCalls, tmCall>>
mainVars == <<pc, winW, winH, canvas, handler, glReady, uniforms, steps, failedAt,
              glInit, glFrame, frame, drawList, drawIdx, rafPending>>

\* ------------------------------------------------------------------ bounds

\* Longest raw array handed to the Matrix constructor.
MaxMatLen == 17
\* Longest raw array handed to the Vector constructor.
MaxVecLen == 5
\* Raw arrays are filled with the pattern (a*k + b) for a in 1..MaxSeed.
MaxSeed == 2
\* Arguments of scaler and translator range over -1..MaxVal.
MaxVal == 1
\* Most components added to a registry.
MaxComponents == 4
\* window.innerWidth and window.innerHeight range over 0..MaxWin.
MaxWin == 4
\* the longest batch of keys the input listener hands to one update
MaxKeys == 3

Vals == -1 .. MaxVal
Quarters == 0 .. 3

\* ------------------------------------------------------------- JS helpers

\* The array literal [s[1], ..., s[n]].
Arr(s) == [k \in 0 .. Len(s) - 1 |-> s[k + 1]]
\* array.length
Length(a) == Cardinality(DOMAIN a)
\* An optional array parameter: `undefined`, or an array.
Undefined == [undef |-> TRUE, arr |-> Arr(<<>>)]
Given(a) == [undef |-> FALSE, arr |-> a]
\* The outcome of a constructor call: an instance, or a thrown Error.
Returned(x) == [threw |-> FALSE, val |-> x]
Threw == [threw |-> TRUE, val |-> Arr(<<>>)]

\* Math.sin and Math.cos at q quarter turns.
sin(q) == CASE q % 4 = 0 -> 0 [] q % 4 = 1 -> 1 [] q % 4 = 2 -> 0 [] OTHER -> -1
cos(q) == CASE q % 4 = 0 -> 1 [] q % 4 = 1 -> 0 [] q % 4 = 2 -> -1 [] OTHER -> 0

\* new Float32Array(a) for whole numbers: exact up to 2^24, beyond that
\* rounded to the nearest representable value, ties to even.
RECURSIVE Ulp(_)
Ulp(a) == IF a <= 16777216 THEN 1 ELSE 2 * Ulp(a \div 2)
Fround(x) ==
  LET a == IF x < 0 THEN -x ELSE x
      u == Ulp(a)
      lo == (a \div u) * u
      r == a - lo
      up == 2 * r > u \/ (2 * r = u /\ (lo \div u) % 2 = 1)
      v == IF up THEN lo + u ELSE lo
  IN IF x < 0 THEN -v ELSE v
Float32Array(a) == [k \in DOMAIN a |-> Fround(a[k])]

\* ----------------------------------------------------------------- Vector

\* new Vector(raw): the internal array v, or a throw.
Vector_constructor(raw) ==
  IF raw.undef THEN Returned(Arr(<<0, 0, 0, 0>>))
  ELSE IF Length(raw.arr) >= 4
       THEN Returned(Arr(<<raw.arr[0], raw.arr[1], raw.arr[2], raw.arr[3]>>))
       ELSE Threw

\* Vector.get(): new Float32Array(this.v)
Vector_get(v) == Float32Array(v)

\* ----------------------------------------------------------------- Matrix

\* A plausible slip: `>` for `>=` in the length test.
Matrix_constructor_strict(raw) ==
  IF raw.undef
  THEN Returned([k \in 0 .. 15 |-> 0])
  ELSE IF Length(raw.arr) > 16
       THEN Returned([k \in 0 .. 15 |-> raw.arr[k]])
       ELSE Threw

\* new Matrix(raw): the internal array m, or a throw.
Matrix_constructor(raw) ==
  IF raw.undef
  THEN Returned(Arr(<<0, 0, 0, 0,
                      0, 0, 0, 0,
                      0, 0, 0, 0,
                      0, 0, 0, 0>>))
  ELSE IF Length(raw.arr) >= 16
       THEN Returned(Arr(<<raw.arr[0], raw.arr[1], raw.arr[2], raw.arr[3],
                           raw.arr[4], raw.arr[5], raw.arr[6], raw.arr[7],
                           raw.arr[8], raw.arr[9], raw.arr[10], raw.arr[11],
                           raw.arr[12], raw.arr[13], raw.arr[14], raw.arr[15]>>))
       ELSE Threw

\* Matrix.get(): new Float32Array(this.m)
Matrix_get(m) == Float32Array(m)

\* Matrix.at(i, j)
Matrix_at(m, i, j) == m[4 * j + i]

\* Matrix.setAt(i, j, val)
Matrix_setAt(m, i, j, val) == [m EXCEPT ![4 * j + i] = val]

\* The innermost loop of mul: val += this.at(i, k) * m2.at(k, j).
RECURSIVE mulK(_, _, _, _, _, _)
mulK(this, m2, i, j, k, val) ==
  IF k < 4
  THEN mulK(this, m2, i, j, k + 1, val + Matrix_at(this, i, k) * Matrix_at(m2, k, j))
  ELSE val

\* The loop over j of mul: result.setAt(i, j, val).
RECURSIVE mulJ(_, _, _, _, _)
mulJ(this, m2, i, j, result) ==
  IF j < 4
  THEN mulJ(this, m2, i, j + 1, Matrix_setAt(result, i, j, mulK(this, m2, i, j, 0, 0)))
  ELSE result

\* The loop over i of mul.
RECURSIVE mulI(_, _, _, _)
mulI(this, m2, i, result) ==
  IF i < 4 THEN mulI(this, m2, i + 1, mulJ(this, m2, i, 0, result)) ELSE result

\* A plausible slip: the operands of the product exchanged.
Matrix_mul_swapped(this, m2) == mulI(m2, this, 0, Matrix_constructor(Undefined).val)

\* this.mul(m2)
Matrix_mul(this, m2) == mulI(this, m2, 0, Matrix_constructor(Undefined).val)

\* A plausible slip: the last diagonal entry left out.
Matrix_identity_short ==
  Matrix_constructor(Given(Arr(<<1, 0, 0, 0,
                                 0, 1, 0, 0,
                                 0, 0, 1, 0,
                                 0, 0, 0, 0>>))).val

\* Matrix.identity()
Matrix_identity ==
  Matrix_constructor(Given(Arr(<<1, 0, 0, 0,
                                 0, 1, 0, 0,
                                 0, 0, 1, 0,
                                 0, 0, 0, 1>>))).val

\* Matrix.scaler(x, y, z)
Matrix_scaler(x, y, z) ==
  Matrix_constructor(Given(Arr(<<x, 0, 0, 0,
                                 0, y, 0, 0,
                                 0, 0, z, 0,
                                 0, 0, 0, 1>>))).val

\* Matrix.rotatorX(r)
Matrix_rotatorX(r) ==
  Matrix_constructor(Given(Arr(<<1, 0, 0, 0,
                                 0, cos(r), -sin(r), 0,
                                 0, sin(r), cos(r), 0,
                                 0, 0, 0, 1>>))).val

\* Matrix.rotatorY(r)
Matrix_rotatorY(r) ==
  Matrix_constructor(Given(Arr(<<cos(r), 0, sin(r), 0,
                                 0, 1, 0, 0,
                                 -sin(r), 0, cos(r), 0,
                                 0, 0, 0, 1>>))).val

\* Matrix.rotatorZ(r)
Matrix_rotatorZ(r) ==
  Matrix_constructor(Given(Arr(<<cos(r), -sin(r), 0, 0,
                                 sin(r), cos(r), 0, 0,
                                 0, 0, 1, 0,
                                 0, 0, 0, 1>>))).val

\* Matrix.translator(x, y, z)
Matrix_translator(x, y, z) ==
  Matrix_constructor(Given(Arr(<<1, 0, 0, 0,
                                 0, 1, 0, 0,
                                 0, 0, 1, 0,
                                 x, y, z, 1>>))).val

\* ----------------------------------------------- the library, call by call

\* The raw array [a*0 + b, a*1 + b, ..., a*(n-1) + b].
Pattern(n, a, b) == [k \in 0 .. n - 1 |-> a * k + b]
MatRaws == {Pattern(n, a, b) : n \in 0 .. MaxMatLen, a \in 1 .. MaxSeed, b \in {-7, 0}}
VecRaws == {Pattern(n, a, b) : n \in 0 .. MaxVecLen, a \in 1 .. MaxSeed, b \in {-7, 0}}

\* A call of a constructor or of a static factory, with its arguments.
Call(fn, raw, args) == [fn |-> fn, raw |-> raw, args |-> args]
NoCall == Call("none", Undefined, <<>>)
\* A variable of the caller: the call that was to build it, and what it holds.
Empty == [call |-> NoCall, some |-> FALSE, m |-> Arr(<<>>)]
Holding(call, res) ==
  [call |-> call, some |-> ~res.threw, m |-> IF res.threw THEN Arr(<<>>) ELSE res.val]

\* The caller evaluates one matrix expression and keeps its value; a throw
\* propagates and ends the caller.
Build(call, res) ==
  /\ IF mpc = "first"
     THEN slotA' = Holding(call, res) /\ UNCHANGED slotB
     ELSE slotB' = Holding(call, res) /\ UNCHANGED slotA
  /\ mpc' = IF res.threw THEN "threw" ELSE IF mpc = "first" THEN "second" ELSE "mul"
  /\ UNCHANGED <<mR, vLast, cmVars, spVars, mainVars, tmVars>>

\* new Matrix(raw)
MatNew ==
  /\ mpc \in {"first", "second"}
  /\ \E raw \in {Undefined} \cup {Given(a) : a \in MatRaws} :
       Build(Call("Matrix", raw, <<>>), Matrix_constructor(raw))

\* Matrix.identity()
MatIdentity ==
  /\ mpc \in {"first", "second"}
  /\ Build(Call("identity", Undefined, <<>>), Returned(Matrix_identity))

\* Matrix.scaler(x, y, z)
MatScaler ==
  /\ mpc \in {"first", "second"}
  /\ \E x \in Vals, y \in Vals, z \in Vals :
       Build(Call("scaler", Undefined, <<x, y, z>>), Returned(Matrix_scaler(x, y, z)))

\* Matrix.rotatorX(r)
MatRotatorX ==
  /\ mpc \in {"first", "second"}
  /\ \E r \in Quarters :
       Build(Call("rotatorX", Undefined, <<r>>), Returned(Matrix_rotatorX(r)))

\* Matrix.rotatorY(r)
MatRotatorY ==
  /\ mpc \in {"first", "second"}
  /\ \E r \in Quarters :
       Build(Call("rotatorY", Undefined, <<r>>), Returned(Matrix_rotatorY(r)))

\* Matrix.rotatorZ(r)
MatRotatorZ ==
  /\ mpc \in {"first", "second"}
  /\ \E r \in Quarters :
       Build(Call("rotatorZ", Undefined, <<r>>), Returned(Matrix_rotatorZ(r)))

\* Matrix.translator(x, y, z)
MatTranslator ==
  /\ mpc \in {"first", "second"}
  /\ \E x \in Vals, y \in Vals, z \in Vals :
       Build(Call("translator", Undefined, <<x, y, z>>), Returned(Matrix_translator(x, y, z)))

\* slotA.mul(slotB)
MatMul ==
  /\ mpc = "mul"
  /\ mR' = Holding(Call("mul", Undefined, <<>>), Returned(Matrix_mul(slotA.m, slotB.m)))
  /\ mpc' = "done"
  /\ UNCHANGED <<slotA, slotB, vLast, cmVars, spVars, mainVars, tmVars>>

\* new Vector(raw)
VecNew ==
  /\ mpc = "first"
  /\ \E raw \in {Undefined} \cup {Given(a) : a \in VecRaws} :
       LET res == Vector_constructor(raw) IN
         /\ vLast' = Holding(Call("Vector", raw, <<>>), res)
         /\ mpc' = IF res.threw THEN "threw" ELSE "vec"
  /\ UNCHANGED <<slotA, slotB, mR, cmVars, spVars, mainVars, tmVars>>

MatNext ==
  \/ MatNew \/ MatIdentity \/ MatScaler
  \/ MatRotatorX \/ MatRotatorY \/ MatRotatorZ
  \/ MatTranslator \/ MatMul \/ VecNew

\* ------------------------------------------------------ ComponentManager

\* The classes of the components: Sprite, a class extending Sprite, and a
\* class that implements IComponent on its own.
Classes == {"Sprite", "SubSprite", "Other"}
Extends(c) == IF c = "SubSprite" THEN "Sprite" ELSE "Object"

\* n instanceof type: type is on the prototype chain of n's class.
RECURSIVE OnChain(_, _)
OnChain(c, type) ==
  IF c = type THEN TRUE ELSE IF c = "Object" THEN FALSE ELSE OnChain(Extends(c), type)
instanceof(n, type) == OnChain(n.class, type)

\* new ComponentManager()
ComponentManager_constructor == <<>>

\* ComponentManager.add(component): this.components.push(component)
ComponentManager_add(comps, component) == Append(comps, component)

\* The loop of get over this.components, from its k-th element on.
RECURSIVE getLoop(_, _, _, _)
getLoop(comps, type, k, res) ==
  IF k > Len(comps) THEN res
  ELSE getLoop(comps, type, k + 1,
               IF instanceof(comps[k], type) THEN Append(res, comps[k]) ELSE res)

\* A plausible slip: the class compared for equality, subclasses left out.
ComponentManager_get_exact(comps, type) ==
  SelectSeq(comps, LAMBDA n : n.class = type)

\* A plausible slip: get leaves out the components whose flag is off.
ComponentManager_get_enabled(comps, type) ==
  SelectSeq(getLoop(comps, type, 1, <<>>), LAMBDA n : n.enabled)

\* ComponentManager.get(type)
ComponentManager_get(comps, type) == getLoop(comps, type, 1, <<>>)

\* The objects handed to add: one of each class.
Objs == {[id |-> 1, class |-> "Sprite"],
         [id |-> 2, class |-> "SubSprite"],
         [id |-> 3, class |-> "Other"]}

NoGet == [type |-> "none", n |-> 0, res |-> <<>>]

\* comManager.add(c)
CMAdd ==
  /\ Len(added) < MaxComponents
  /\ \E c \in Objs :
       /\ components' = ComponentManager_add(components, c)
       /\ added' = Append(added, c)
  /\ UNCHANGED <<lastGet, matVars, spVars, mainVars, tmVars>>

\* comManager.get(type)
CMGet ==
  /\ \E type \in Classes :
       lastGet' = [type |-> type, n |-> Len(added),
                   res |-> ComponentManager_get(components, type)]
  /\ UNCHANGED <<components, added, matVars, spVars, mainVars, tmVars>>

CMNext == CMAdd \/ CMGet

\* ----------------------------------------------------------------- Sprite

\* new Sprite(pos, rot, scl, col); each parameter may be undefined.
Sprite_constructor(pos, rot, scl, col) ==
  [class |-> "Sprite",
   enabled |-> TRUE,
   pos |-> IF pos.undef THEN Arr(<<0, 0, 0>>) ELSE pos.arr,
   rot |-> IF rot.undef THEN Arr(<<0, 0, 0>>) ELSE rot.arr,
   scl |-> IF scl.undef THEN Arr(<<1, 1>>) ELSE scl.arr,
   col |-> IF col.undef THEN Arr(<<0, 0, 0, 0>>) ELSE col.arr]

\* Sprite.isEnabled(), enable(), disable()
Sprite_isEnabled(this) == this.enabled
Sprite_enable(this) == [this EXCEPT !.enabled = TRUE]
Sprite_disable(this) == [this EXCEPT !.enabled = FALSE]

Sprite_setPosition(this, pos) == [this EXCEPT !.pos = pos]
Sprite_setRotation(this, rot) == [this EXCEPT !.rot = rot]
Sprite_setScale(this, scl) == [this EXCEPT !.scl = scl]
Sprite_setColor(this, col) == [this EXCEPT !.col = col]

\* One call gl.draw(matScl, matRot, matTrs, vecCol), by its arguments.
DrawCall(matScl, matRot, matTrs, vecCol) ==
  [matScl |-> matScl, matRot |-> matRot, matTrs |-> matTrs, vecCol |-> vecCol]

\* A plausible slip: the rotations composed in the opposite axis order.
Sprite_draw_zyx(this) ==
  <<DrawCall(
      Matrix_scaler(this.scl[0], this.scl[1], 1),
      Matrix_mul(Matrix_rotatorZ(this.rot[2]),
                 Matrix_mul(Matrix_rotatorY(this.rot[1]), Matrix_rotatorX(this.rot[0]))),
      Matrix_translator(this.pos[0], this.pos[1], this.pos[2]),
      Vector_constructor(
        Given(Arr(<<this.col[0], this.col[1], this.col[2], this.col[3]>>))).val)>>

\* Sprite.draw(gl): the calls of gl.draw it makes, in order.
Sprite_draw(this) ==
  <<DrawCall(
      Matrix_scaler(this.scl[0], this.scl[1], 1),
      Matrix_mul(Matrix_rotatorX(this.rot[0]),
                 Matrix_mul(Matrix_rotatorY(this.rot[1]), Matrix_rotatorZ(this.rot[2]))),
      Matrix_translator(this.pos[0], this.pos[1], this.pos[2]),
      Vector_constructor(
        Given(Arr(<<this.col[0], this.col[1], this.col[2], this.col[3]>>))).val)>>

\* The values handed to the constructor and the setters.
PosVals == {Arr(<<0, 0, 0>>), Arr(<<0, 0, 40>>), Arr(<<1, -2, 3>>)}
RotVals == {Arr(<<0, 0, 0>>), Arr(<<1, 0, 0>>), Arr(<<1, 1, 0>>), Arr(<<3, 2, 1>>)}
SclVals == {Arr(<<1, 1>>), Arr(<<100, 100>>), Arr(<<200, 50>>)}
ColVals == {Arr(<<0, 0, 0, 0>>), Arr(<<1, 0, 0, 1>>), Arr(<<0, 1, 0, 1>>)}
Opt(S) == {Undefined} \cup {Given(a) : a \in S}

NoSprite == [class |-> "none"]

SpNew ==
  /\ sprite = NoSprite
  /\ \E pos \in Opt(PosVals), rot \in Opt(RotVals), scl \in Opt(SclVals), col \in Opt(ColVals) :
       sprite' = Sprite_constructor(pos, rot, scl, col)
  /\ UNCHANGED <<drawn, matVars, cmVars, mainVars, tmVars>>

SpSetPosition ==
  /\ sprite # NoSprite
  /\ \E pos \in PosVals : sprite' = Sprite_setPosition(sprite, pos)
  /\ UNCHANGED <<drawn, matVars, cmVars, mainVars, tmVars>>

SpSetRotation ==
  /\ sprite # NoSprite
  /\ \E rot \in RotVals : sprite' = Sprite_setRotation(sprite, rot)
  /\ UNCHANGED <<drawn, matVars, cmVars, mainVars, tmVars>>

SpSetScale ==
  /\ sprite # NoSprite
  /\ \E scl \in SclVals : sprite' = Sprite_setScale(sprite, scl)
  /\ UNCHANGED <<drawn, matVars, cmVars, mainVars, tmVars>>

SpSetColor ==
  /\ sprite # NoSprite
  /\ \E col \in ColVals : sprite' = Sprite_setColor(sprite, col)
  /\ UNCHANGED <<drawn, matVars, cmVars, mainVars, tmVars>>

\* sprite.draw(renderer), the renderer recording what it is asked to draw.
SpDraw ==
  /\ sprite # NoSprite
  /\ drawn' = Sprite_draw(sprite)
  /\ UNCHANGED <<sprite, matVars, cmVars, mainVars, tmVars>>

SpNext == SpNew \/ SpSetPosition \/ SpSetRotation \/ SpSetScale \/ SpSetColor \/ SpDraw

\* ---------------------------------------------------------- TypingManager

\* The buffer is a TypingBuffer, used through push(c), pop() and clear():
\* it is represented by the calls made on it.
BufCall(op, c) == [op |-> op, c |-> c]

\* new TypingManager(app)
TypingManager_constructor == [isSubmitted |-> FALSE, calls |-> <<>>]

\* The for loop of update over the keys, from the k-th key on.
RECURSIVE updateLoop(_, _, _)
updateLoop(this, keys, k) ==
  IF k > Len(keys) THEN this
  ELSE IF keys[k] = "Backspace"
       THEN updateLoop([this EXCEPT !.calls = Append(@, BufCall("pop", ""))], keys, k + 1)
  ELSE IF keys[k] = "Enter"
       THEN [this EXCEPT !.isSubmitted = TRUE]
  ELSE updateLoop([this EXCEPT !.calls = Append(@, BufCall("push", keys[k]))], keys, k + 1)

\* A plausible slip: update without the early return.
TypingManager_update_unlatched(this, keys) == updateLoop(this, keys, 1)

\* TypingManager.update(), keys being what app.getInputListener().get() yields
TypingManager_update(this, keys) ==
  IF this.isSubmitted THEN this ELSE updateLoop(this, keys, 1)

\* TypingManager.reject()
TypingManager_reject(this) == [this EXCEPT !.isSubmitted = FALSE]

\* TypingManager.clear()
TypingManager_clear(this) ==
  [this EXCEPT !.calls = Append(@, BufCall("clear", "")), !.isSubmitted = FALSE]

\* TypingManager.checkSubmitted()
TypingManager_checkSubmitted(this) == this.isSubmitted

\* The keys of the input listener and the batches one update may find.
Keys == {"a", "b", "Backspace", "Enter"}
Batches == UNION {[1 .. n -> Keys] : n \in 0 .. MaxKeys}

TmCall(op, keys, before) == [op |-> op, keys |-> keys, before |-> before]
NoTmCall == TmCall("none", <<>>, FALSE)

\* The manager as an operation finds it: its flag, no call made yet.
This == [isSubmitted |-> isSubmitted, calls |-> <<>>]

\* typingManager.update()
TmUpdate ==
  /\ \E keys \in Batches :
       LET after == TypingManager_update(This, keys)
       IN /\ isSubmitted' = after.isSubmitted
          /\ bufferCalls' = after.calls
          /\ tmCall' = TmCall("update", keys, isSubmitted)
  /\ UNCHANGED <<matVars, cmVars, spVars, mainVars>>

\* typingManager.reject()
TmReject ==
  /\ LET after == TypingManager_reject(This)
     IN /\ isSubmitted' = after.isSubmitted
        /\ bufferCalls' = after.calls
        /\ tmCall' = TmCall("reject", <<>>, isSubmitted)
  /\ UNCHANGED <<matVars, cmVars, spVars, mainVars>>

\* typingManager.clear()
TmClear ==
  /\ LET after == TypingManager_clear(This)
     IN /\ isSubmitted' = after.isSubmitted
        /\ bufferCalls' = after.calls
        /\ tmCall' = TmCall("clear", <<>>, isSubmitted)
  /\ UNCHANGED <<matVars, cmVars, spVars, mainVars>>

TmNext == TmUpdate \/ TmReject \/ TmClear

\* -------------------------------------------------------------- GLWrapper

VERTEX_SHADER_IN_POS_LOCATION == 0
VERTEX_SHADER_IN_UV_LOCATION == 1
VIEWPORT_WIDTH == 1280
VIEWPORT_HEIGHT == 960
VIEWPORT_DEPTH == 100

\* A JavaScript number that need not be whole: the fraction n / d, d > 0.
Rat(n, d) == <<n, d>>
\* r * a / b
RatMulDiv(r, a, b) == Rat(r[1] * a, r[2] * b)
\* r < t
RatLess(r, t) == r[1] * t[2] < t[1] * r[2]
\* Assigning a number to canvas.width or canvas.height (an unsigned long):
\* the fraction is dropped.  Sizes stay far below 2^32.
ToUnsignedLong(r) == r[1] \div r[2]
\* style.width and style.height before the first assignment.
Unset == Rat(0, 0)

\* A plausible slip: the comparison of resizing the other way round.
resizing_flipped(W, H) ==
  LET w == Rat(W, 1)
      h == Rat(H, 1)
      hFit == RatMulDiv(w, VIEWPORT_HEIGHT, VIEWPORT_WIDTH)
      wFit == RatMulDiv(h, VIEWPORT_WIDTH, VIEWPORT_HEIGHT)
      w2 == IF RatLess(h, hFit) THEN w ELSE wFit
      h2 == IF RatLess(h, hFit) THEN hFit ELSE h
  IN [width |-> ToUnsignedLong(w2), height |-> ToUnsignedLong(h2),
      styleWidth |-> w2, styleHeight |-> h2]

\* resizing(): the canvas it leaves, given window.innerWidth and innerHeight.
resizing(W, H) ==
  LET w == Rat(W, 1)
      h == Rat(H, 1)
      hFit == RatMulDiv(w, VIEWPORT_HEIGHT, VIEWPORT_WIDTH)
      wFit == RatMulDiv(h, VIEWPORT_WIDTH, VIEWPORT_HEIGHT)
      w2 == IF RatLess(hFit, h) THEN w ELSE wFit
      h2 == IF RatLess(hFit, h) THEN hFit ELSE h
  IN [width |-> ToUnsignedLong(w2), height |-> ToUnsignedLong(h2),
      styleWidth |-> w2, styleHeight |-> h2]

\* The uniforms of the shader program.
UniNames == {"uniScl", "uniRot", "uniTrs", "uniProj", "uniCol"}
\* No program is linked yet.
NoUniforms == [n \in UniNames |-> Arr(<<>>)]
\* A freshly linked program: every uniform is zero.
LinkedUniforms ==
  [n \in UniNames |->
     IF n = "uniCol" THEN [k \in 0 .. 3 |-> 0]
     ELSE IF n = "uniProj" THEN [k \in 0 .. 15 |-> Rat(0, 1)]
     ELSE [k \in 0 .. 15 |-> 0]]

\* One command to the WebGL2 context; `seen` is the uniform state it runs with.
Cmd(op, loc, val, u) == [op |-> op, loc |-> loc, val |-> val, seen |-> u]
Plain(op, u) == Cmd(op, "", Arr(<<>>), u)

\* gl.uniformMatrix4fv(loc, false, val) and gl.uniform4fv(loc, val): the
\* state [uniforms, cmds] after the command.
SetUniform(st, op, loc, val) ==
  LET u == [st.uniforms EXCEPT ![loc] = val]
  IN [uniforms |-> u, cmds |-> Append(st.cmds, Cmd(op, loc, val, u))]
\* Any other command.
Issue(st, op, loc, val) ==
  [uniforms |-> st.uniforms, cmds |-> Append(st.cmds, Cmd(op, loc, val, st.uniforms))]

\* A plausible slip: the draw command issued before the color is uploaded.
GLWrapper_draw_early(u, call) ==
  LET s0 == [uniforms |-> u, cmds |-> <<>>]
      s1 == SetUniform(s0, "uniformMatrix4fv", "uniScl", Matrix_get(call.matScl))
      s2 == SetUniform(s1, "uniformMatrix4fv", "uniRot", Matrix_get(call.matRot))
      s3 == SetUniform(s2, "uniformMatrix4fv", "uniTrs", Matrix_get(call.matTrs))
      s4 == Issue(s3, "drawElements", "TRIANGLES", Arr(<<6>>))
  IN SetUniform(s4, "uniform4fv", "uniCol", Vector_get(call.vecCol))

\* GLWrapper.draw(matScl, matRot, matTrs, vecCol), from uniform state u:
\* the uniform state it leaves and the commands it issues.
GLWrapper_draw(u, call) ==
  LET s0 == [uniforms |-> u, cmds |-> <<>>]
      s1 == SetUniform(s0, "uniformMatrix4fv", "uniScl", Matrix_get(call.matScl))
      s2 == SetUniform(s1, "uniformMatrix4fv", "uniRot", Matrix_get(call.matRot))
      s3 == SetUniform(s2, "uniformMatrix4fv", "uniTrs", Matrix_get(call.matTrs))
      s4 == SetUniform(s3, "uniform4fv", "uniCol", Vector_get(call.vecCol))
  IN Issue(s4, "drawElements", "TRIANGLES", Arr(<<6>>))

\* GLWrapper.clear() and GLWrapper.flush()
GLWrapper_clear(u) == Issue([uniforms |-> u, cmds |-> <<>>], "clear", "", Arr(<<>>))
GLWrapper_flush(u) == Issue([uniforms |-> u, cmds |-> <<>>], "flush", "", Arr(<<>>))

\* sprite.draw(gl) for every call the sprite makes, from state st.
RECURSIVE DrawAll(_, _, _)
DrawAll(st, calls, k) ==
  IF k > Len(calls) THEN st
  ELSE LET d == GLWrapper_draw(st.uniforms, calls[k])
       IN DrawAll([uniforms |-> d.uniforms, cmds |-> st.cmds \o d.cmds], calls, k + 1)

\* The projection matrix of the constructor, its entries kept as fractions.
matProj ==
  Arr(<<Rat(2, VIEWPORT_WIDTH), Rat(0, 1), Rat(0, 1), Rat(0, 1),
        Rat(0, 1), Rat(2, VIEWPORT_HEIGHT), Rat(0, 1), Rat(0, 1),
        Rat(0, 1), Rat(0, 1), Rat(-2, VIEWPORT_DEPTH), Rat(0, 1),
        Rat(0, 1), Rat(0, 1), Rat(0, 1), Rat(1, 1)>>)

\* ------------------------------------------- main, constructor, frame loop

\* The steps of the GLWrapper constructor, in the order of its statements.
CtorOrder ==
  <<"getCanvas", "resizing", "getContext", "vertShader", "fragShader", "program",
    "uniScl", "uniRot", "uniTrs", "uniProj", "uniCol",
    "uploadProj", "uploadCol", "renderState",
    "vtxBuffer", "idxBuffer", "bindBuffers", "attribs">>

\* A plausible slip: the loop flushes before it draws.
LoopOrder_flushFirst == <<"clear", "get", "flush", "draw", "raf">>

\* The statements of loop, in order.
LoopOrder == <<"clear", "get", "draw", "flush", "raf">>

IndexOf(order, x) == CHOOSE k \in 1 .. Len(order) : order[k] = x
\* The constructor step after `step`; after the last one main goes on.
CtorNext(step) ==
  LET k == IndexOf(CtorOrder, step)
  IN IF k < Len(CtorOrder) THEN CtorOrder[k + 1] ELSE "newManager"
\* The statement of loop after `step`; after the last one loop returns.
LoopNext(step) ==
  LET k == IndexOf(LoopOrder, step)
  IN IF k < Len(LoopOrder) THEN LoopOrder[k + 1] ELSE "idle"

\* A plausible slip: the failure is swallowed and the constructor goes on.
Raise_swallowed(step) == CtorNext(step)

\* throw new Error(...) in the constructor or a helper it calls: nothing
\* catches it, so the constructor and main end.
Raise(step) == "threw"

\* The commands ops (names), issued with uniform state u.
Plains(ops, u) == [k \in 1 .. Len(ops) |-> Plain(ops[k], u)]

\* A renderer call of loop: clear, draw (with its arguments), flush, and
\* the requestAnimationFrame that follows them.
Event(op) == [op |-> op, call |-> DrawCall(Arr(<<>>), Arr(<<>>), Arr(<<>>), Arr(<<>>))]
DrawEvent(call) == [op |-> "draw", call |-> call]

\* The canvas element before any script has touched it: the default size
\* of a canvas, no style.
InitialCanvas ==
  [width |-> 300, height |-> 150, styleWidth |-> Unset, styleHeight |-> Unset]

\* document fires DOMContentLoaded: main() runs and enters new GLWrapper().
DOMContentLoaded ==
  /\ pc = "start"
  /\ pc' = CtorOrder[1]
  /\ UNCHANGED <<winW, winH, canvas, handler, glReady, uniforms, steps, failedAt,
                 glInit, glFrame, frame, drawList, drawIdx, rafPending,
                 matVars, cmVars, spVars, tmVars>>

\* document.getElementById("canvas")
GetCanvas ==
  /\ pc = "getCanvas"
  /\ steps' = Append(steps, pc)
  /\ \E found \in BOOLEAN :
       IF found
       THEN pc' = CtorNext(pc) /\ UNCHANGED failedAt
       ELSE pc' = Raise(pc) /\ failedAt' = pc
  /\ UNCHANGED <<winW, winH, canvas, handler, glReady, uniforms,
                 glInit, glFrame, frame, drawList, drawIdx, rafPending,
                 matVars, cmVars, spVars, tmVars>>

\* resizing(); window.addEventListener("resize", resizing)
InstallResizing ==
  /\ pc = "resizing"
  /\ steps' = Append(steps, pc)
  /\ canvas' = resizing(winW, winH)
  /\ handler' = TRUE
  /\ pc' = CtorNext(pc)
  /\ UNCHANGED <<winW, winH, glReady, uniforms, failedAt,
                 glInit, glFrame, frame, drawList, drawIdx, rafPending,
                 matVars, cmVars, spVars, tmVars>>

\* canvas.getContext("webgl2")
GetContext ==
  /\ pc = "getContext"
  /\ steps' = Append(steps, pc)
  /\ \E got \in BOOLEAN :
       IF got
       THEN pc' = CtorNext(pc) /\ UNCHANGED failedAt
       ELSE pc' = Raise(pc) /\ failedAt' = pc
  /\ UNCHANGED <<winW, winH, canvas, handler, glReady, uniforms,
                 glInit, glFrame, frame, drawList, drawIdx, rafPending,
                 matVars, cmVars, spVars, tmVars>>

\* createShader(gl, type, code), for the vertex and then the fragment shader
CreateShader ==
  /\ pc \in {"vertShader", "fragShader"}
  /\ steps' = Append(steps, pc)
  /\ \E outcome \in {"ok", "null", "compileError"} :
       /\ glInit' = glInit \o
            Plains(CASE outcome = "null" -> <<"createShader">>
                     [] outcome = "compileError" ->
                          <<"createShader", "shaderSource", "compileShader",
                            "getShaderParameter", "deleteShader">>
                     [] OTHER ->
                          <<"createShader", "shaderSource", "compileShader",
                            "getShaderParameter">>,
                   uniforms)
       /\ IF outcome = "ok"
          THEN pc' = CtorNext(pc) /\ UNCHANGED failedAt
          ELSE pc' = Raise(pc) /\ failedAt' = pc
  /\ UNCHANGED <<winW, winH, canvas, handler, glReady, uniforms,
                 glFrame, frame, drawList, drawIdx, rafPending,
                 matVars, cmVars, spVars, tmVars>>

\* createProgram(gl, vertShader, fragShader); gl.useProgram(program)
CreateProgram ==
  /\ pc = "program"
  /\ steps' = Append(steps, pc)
  /\ \E outcome \in {"ok", "null", "linkError"} :
       /\ glInit' = glInit \o
            (CASE outcome = "null" -> Plains(<<"createProgram">>, uniforms)
               [] outcome = "linkError" ->
                    Plains(<<"createProgram", "attachShader", "attachShader",
                             "linkProgram", "getProgramParameter", "deleteProgram">>,
                           uniforms)
               [] OTHER ->
                    Plains(<<"createProgram", "attachShader", "attachShader",
                             "linkProgram">>, uniforms)
                      \o Plains(<<"getProgramParameter", "useProgram">>, LinkedUniforms))
       /\ IF outcome = "ok"
          THEN pc' = CtorNext(pc) /\ uniforms' = LinkedUniforms /\ UNCHANGED failedAt
          ELSE pc' = Raise(pc) /\ failedAt' = pc /\ UNCHANGED uniforms
  /\ UNCHANGED <<winW, winH, canvas, handler, glReady,
                 glFrame, frame, drawList, drawIdx, rafPending,
                 matVars, cmVars, spVars, tmVars>>

\* getUniLoc(gl, program, name), for uniScl, uniRot, uniTrs, uniProj, uniCol
GetUniLoc ==
  /\ pc \in UniNames
  /\ steps' = Append(steps, pc)
  /\ glInit' = Append(glInit, Cmd("getUniformLocation", pc, Arr(<<>>), uniforms))
  /\ \E found \in BOOLEAN :
       IF found
       THEN pc' = CtorNext(pc) /\ UNCHANGED failedAt
       ELSE pc' = Raise(pc) /\ failedAt' = pc
  /\ UNCHANGED <<winW, winH, canvas, handler, glReady, uniforms,
                 glFrame, frame, drawList, drawIdx, rafPending,
                 matVars, cmVars, spVars, tmVars>>

\* gl.uniformMatrix4fv(uniProjLoc, false, matProj)
UploadProjection ==
  /\ pc = "uploadProj"
  /\ steps' = Append(steps, pc)
  /\ LET st == SetUniform([uniforms |-> uniforms, cmds |-> glInit],
                          "uniformMatrix4fv", "uniProj", matProj)
     IN uniforms' = st.uniforms /\ glInit' = st.cmds
  /\ pc' = CtorNext(pc)
  /\ UNCHANGED <<winW, winH, canvas, handler, glReady, failedAt,
                 glFrame, frame, drawList, drawIdx, rafPending,
                 matVars, cmVars, spVars, tmVars>>

\* gl.uniform4fv(uniColLoc, [1, 1, 1, 1])
UploadColor ==
  /\ pc = "uploadCol"
  /\ steps' = Append(steps, pc)
  /\ LET st == SetUniform([uniforms |-> uniforms, cmds |-> glInit],
                          "uniform4fv", "uniCol", Float32Array(Arr(<<1, 1, 1, 1>>)))
     IN uniforms' = st.uniforms /\ glInit' = st.cmds
  /\ pc' = CtorNext(pc)
  /\ UNCHANGED <<winW, winH, canvas, handler, glReady, failedAt,
                 glFrame, frame, drawList, drawIdx, rafPending,
                 matVars, cmVars, spVars, tmVars>>

\* clear color, viewport, culling, depth test, blending
ConfigureRenderState ==
  /\ pc = "renderState"
  /\ steps' = Append(steps, pc)
  /\ glInit' = glInit \o
       Plains(<<"clearColor", "viewport", "disable", "enable", "depthFunc",
                "clearDepth", "enable", "blendFunc">>, uniforms)
  /\ pc' = CtorNext(pc)
  /\ UNCHANGED <<winW, winH, canvas, handler, glReady, uniforms, failedAt,
                 glFrame, frame, drawList, drawIdx, rafPending,
                 matVars, cmVars, spVars, tmVars>>

\* createBuffer(gl, type, data), for the vertex and then the index buffer
CreateBuffer ==
  /\ pc \in {"vtxBuffer", "idxBuffer"}
  /\ steps' = Append(steps, pc)
  /\ \E created \in BOOLEAN :
       /\ glInit' = glInit \o
            Plains(IF created
                   THEN <<"createBuffer", "bindBuffer", "bufferData", "bindBuffer">>
                   ELSE <<"createBuffer">>, uniforms)
       /\ IF created
          THEN pc' = CtorNext(pc) /\ UNCHANGED failedAt
          ELSE pc' = Raise(pc) /\ failedAt' = pc
  /\ UNCHANGED <<winW, winH, canvas, handler, glReady, uniforms,
                 glFrame, frame, drawList, drawIdx, rafPending,
                 matVars, cmVars, spVars, tmVars>>

\* gl.bindBuffer(ARRAY_BUFFER, vtxBuffer); gl.bindBuffer(ELEMENT_ARRAY_BUFFER, idxBuffer)
BindBuffers ==
  /\ pc = "bindBuffers"
  /\ steps' = Append(steps, pc)
  /\ glInit' = glInit \o Plains(<<"bindBuffer", "bindBuffer">>, uniforms)
  /\ pc' = CtorNext(pc)
  /\ UNCHANGED <<winW, winH, canvas, handler, glReady, uniforms, failedAt,
                 glFrame, frame, drawList, drawIdx, rafPending,
                 matVars, cmVars, spVars, tmVars>>

\* The vertex attributes; the constructor returns and main holds gl.
DescribeAttributes ==
  /\ pc = "attribs"
  /\ steps' = Append(steps, pc)
  /\ glInit' = glInit \o
       <<Cmd("enableVertexAttribArray", "", Arr(<<VERTEX_SHADER_IN_POS_LOCATION>>), uniforms),
         Cmd("enableVertexAttribArray", "", Arr(<<VERTEX_SHADER_IN_UV_LOCATION>>), uniforms),
         Cmd("vertexAttribPointer", "", Arr(<<VERTEX_SHADER_IN_POS_LOCATION, 4, 6, 0>>), uniforms),
         Cmd("vertexAttribPointer", "", Arr(<<VERTEX_SHADER_IN_UV_LOCATION, 2, 6, 4>>), uniforms)>>
  /\ pc' = CtorNext(pc)
  /\ glReady' = TRUE
  /\ UNCHANGED <<winW, winH, canvas, handler, uniforms, failedAt,
                 glFrame, frame, drawList, drawIdx, rafPending,
                 matVars, cmVars, spVars, tmVars>>

\* const comManager = new ComponentManager()
NewManager ==
  /\ pc = "newManager"
  /\ components' = ComponentManager_constructor
  /\ pc' = "add1"
  /\ UNCHANGED <<added, lastGet, winW, winH, canvas, handler, glReady, uniforms, steps,
                 failedAt, glInit, glFrame, frame, drawList, drawIdx, rafPending,
                 matVars, spVars, tmVars>>

\* comManager.add(new Sprite([0, 0, 40], undefined, [100, 100], [1, 0, 0, 1]))
AddSprite1 ==
  /\ pc = "add1"
  /\ LET n == Sprite_constructor(Given(Arr(<<0, 0, 40>>)), Undefined,
                                 Given(Arr(<<100, 100>>)), Given(Arr(<<1, 0, 0, 1>>)))
     IN /\ components' = ComponentManager_add(components, n)
        /\ added' = Append(added, n)
  /\ pc' = "add2"
  /\ UNCHANGED <<lastGet, winW, winH, canvas, handler, glReady, uniforms, steps,
                 failedAt, glInit, glFrame, frame, drawList, drawIdx, rafPending,
                 matVars, spVars, tmVars>>

\* comManager.add(new Sprite([0, 0, -20], undefined, [200, 50], [0, 1, 0, 1]));
\* then main calls loop(0).
AddSprite2 ==
  /\ pc = "add2"
  /\ LET n == Sprite_constructor(Given(Arr(<<0, 0, -20>>)), Undefined,
                                 Given(Arr(<<200, 50>>)), Given(Arr(<<0, 1, 0, 1>>)))
     IN /\ components' = ComponentManager_add(components, n)
        /\ added' = Append(added, n)
  /\ pc' = LoopOrder[1]
  /\ UNCHANGED <<lastGet, winW, winH, canvas, handler, glReady, uniforms, steps,
                 failedAt, glInit, glFrame, frame, drawList, drawIdx, rafPending,
                 matVars, spVars, tmVars>>

\* gl.clear()
LoopClear ==
  /\ pc = "clear"
  /\ frame' = Append(frame, Event("clear"))
  /\ glFrame' = glFrame \o GLWrapper_clear(uniforms).cmds
  /\ pc' = LoopNext(pc)
  /\ UNCHANGED <<winW, winH, canvas, handler, glReady, uniforms, steps, failedAt,
                 glInit, drawList, drawIdx, rafPending, matVars, cmVars, spVars, tmVars>>

\* comManager.get(Sprite), the array forEach goes through
LoopGet ==
  /\ pc = "get"
  /\ drawList' = ComponentManager_get(components, "Sprite")
  /\ drawIdx' = 1
  /\ lastGet' = [type |-> "Sprite", n |-> Len(added), res |-> drawList']
  /\ pc' = IF Len(drawList') = 0 THEN LoopNext("draw") ELSE LoopNext(pc)
  /\ UNCHANGED <<components, added, winW, winH, canvas, handler, glReady, uniforms, steps,
                 failedAt, glInit, glFrame, frame, rafPending, matVars, spVars, tmVars>>

\* (n) => n.draw(gl), for the next element of the array
LoopDraw ==
  /\ pc = "draw"
  /\ drawIdx <= Len(drawList)
  /\ LET calls == Sprite_draw(drawList[drawIdx])
         st == DrawAll([uniforms |-> uniforms, cmds |-> <<>>], calls, 1)
     IN /\ frame' = frame \o [k \in 1 .. Len(calls) |-> DrawEvent(calls[k])]
        /\ glFrame' = glFrame \o st.cmds
        /\ uniforms' = st.uniforms
  /\ drawIdx' = drawIdx + 1
  /\ pc' = IF drawIdx' > Len(drawList) THEN LoopNext(pc) ELSE pc
  /\ UNCHANGED <<winW, winH, canvas, handler, glReady, steps, failedAt,
                 glInit, drawList, rafPending, matVars, cmVars, spVars, tmVars>>

\* gl.flush()
LoopFlush ==
  /\ pc = "flush"
  /\ frame' = Append(frame, Event("flush"))
  /\ glFrame' = glFrame \o GLWrapper_flush(uniforms).cmds
  /\ pc' = LoopNext(pc)
  /\ UNCHANGED <<winW, winH, canvas, handler, glReady, uniforms, steps, failedAt,
                 glInit, drawList, drawIdx, rafPending, matVars, cmVars, spVars, tmVars>>

\* requestAnimationFrame(loop)
LoopRaf ==
  /\ pc = "raf"
  /\ rafPending' = TRUE
  /\ frame' = Append(frame, Event("raf"))
  /\ pc' = LoopNext(pc)
  /\ UNCHANGED <<winW, winH, canvas, handler, glReady, uniforms, steps, failedAt,
                 glInit, glFrame, drawList, drawIdx, matVars, cmVars, spVars, tmVars>>

\* The display refreshes: the browser calls loop(timeStamp).
AnimationFrame ==
  /\ pc = "idle"
  /\ rafPending
  /\ rafPending' = FALSE
  /\ frame' = <<>>
  /\ glFrame' = <<>>
  /\ pc' = LoopOrder[1]
  /\ UNCHANGED <<winW, winH, canvas, handler, glReady, uniforms, steps, failedAt,
                 glInit, drawList, drawIdx, matVars, cmVars, spVars, tmVars>>

\* The window is resized while no script runs: the listener, if installed,
\* runs resizing().
Resize ==
  /\ pc \in {"start", "idle", "threw"}
  /\ \E W \in 0 .. MaxWin, H \in 0 .. MaxWin :
       /\ <<W, H>> # <<winW, winH>>
       /\ winW' = W
       /\ winH' = H
       /\ canvas' = IF handler THEN resizing(W, H) ELSE canvas
  /\ UNCHANGED <<pc, handler, glReady, uniforms, steps, failedAt,
                 glInit, glFrame, frame, drawList, drawIdx, rafPending,
                 matVars, cmVars, spVars, tmVars>>

\* index.ts never calls enable or disable.  A consumer that holds the
\* registered sprites may: between two scripts it calls enable() or
\* disable() on one of them.
SpriteEnable ==
  /\ pc = "idle"
  /\ \E k \in 1 .. Len(components) :
       /\ ~Sprite_isEnabled(components[k])
       /\ components' = [components EXCEPT ![k] = Sprite_enable(@)]
  /\ UNCHANGED <<added, lastGet, matVars, spVars, mainVars, tmVars>>

SpriteDisable ==
  /\ pc = "idle"
  /\ \E k \in 1 .. Len(components) :
       /\ Sprite_isEnabled(components[k])
       /\ components' = [components EXCEPT ![k] = Sprite_disable(@)]
  /\ UNCHANGED <<added, lastGet, matVars, spVars, mainVars, tmVars>>

Next ==
  \/ DOMContentLoaded \/ GetCanvas \/ InstallResizing \/ GetContext
  \/ CreateShader \/ CreateProgram \/ GetUniLoc
  \/ UploadProjection \/ UploadColor \/ ConfigureRenderState
  \/ CreateBuffer \/ BindBuffers \/ DescribeAttributes
  \/ NewManager \/ AddSprite1 \/ AddSprite2
  \/ LoopClear \/ LoopGet \/ LoopDraw \/ LoopFlush \/ LoopRaf
  \/ AnimationFrame \/ Resize

\* The program together with the consumer of the flag.
NextEnabled ==
  \/ DOMContentLoaded \/ GetCanvas \/ InstallResizing \/ GetContext
  \/ CreateShader \/ CreateProgram \/ GetUniLoc
  \/ UploadProjection \/ UploadColor \/ ConfigureRenderState
  \/ CreateBuffer \/ BindBuffers \/ DescribeAttributes
  \/ NewManager \/ AddSprite1 \/ AddSprite2
  \/ LoopClear \/ LoopGet \/ LoopDraw \/ LoopFlush \/ LoopRaf
  \/ AnimationFrame \/ Resize
  \/ SpriteEnable \/ SpriteDisable

\* -------------------------------------------------------- specifications

vars == <<matVars, cmVars, spVars, mainVars, tmVars>>

\* The program: the page loads, main runs, the frames follow; the window
\* may be resized whenever no script runs.
Init ==
  /\ pc = "start"
  /\ winW \in 0 .. MaxWin
  /\ winH \in 0 .. MaxWin
  /\ canvas = InitialCanvas
  /\ handler = FALSE
  /\ glReady = FALSE
  /\ uniforms = NoUniforms
  /\ steps = <<>>
  /\ failedAt = "none"
  /\ glInit = <<>>
  /\ glFrame = <<>>
  /\ frame = <<>>
  /\ drawList = <<>>
  /\ drawIdx = 1
  /\ rafPending = FALSE
  /\ isSubmitted = FALSE
  /\ bufferCalls = <<>>
  /\ tmCall = NoTmCall
  /\ components = ComponentManager_constructor
  /\ added = <<>>
  /\ lastGet = NoGet
  /\ sprite = NoSprite
  /\ drawn = <<>>
  /\ mpc = "off"
  /\ slotA = Empty
  /\ slotB = Empty
  /\ mR = Empty
  /\ vLast = Empty

Spec == Init /\ [][Next]_vars
SpecEnabled == Init /\ [][NextEnabled]_vars

\* The matrix / vector library under every call sequence of its caller.
InitMat ==
  /\ mpc = "first"
  /\ slotA = Empty
  /\ slotB = Empty
  /\ mR = Empty
  /\ vLast = Empty
  /\ components = ComponentManager_constructor
  /\ added = <<>>
  /\ lastGet = NoGet
  /\ sprite = NoSprite
  /\ drawn = <<>>
  /\ pc = "off"
  /\ winW = 0
  /\ winH = 0
  /\ canvas = InitialCanvas
  /\ handler = FALSE
  /\ glReady = FALSE
  /\ uniforms = NoUniforms
  /\ steps = <<>>
  /\ failedAt = "none"
  /\ glInit = <<>>
  /\ glFrame = <<>>
  /\ frame = <<>>
  /\ drawList = <<>>
  /\ drawIdx = 1
  /\ rafPending = FALSE
  /\ isSubmitted = FALSE
  /\ bufferCalls = <<>>
  /\ tmCall = NoTmCall

SpecMat == InitMat /\ [][MatNext]_vars

\* The registry under every interleaving of add and get.
InitCM ==
  /\ components = ComponentManager_constructor
  /\ added = <<>>
  /\ lastGet = NoGet
  /\ mpc = "off"
  /\ slotA = Empty
  /\ slotB = Empty
  /\ mR = Empty
  /\ vLast = Empty
  /\ sprite = NoSprite
  /\ drawn = <<>>
  /\ pc = "off"
  /\ winW = 0
  /\ winH = 0
  /\ canvas = InitialCanvas
  /\ handler = FALSE
  /\ glReady = FALSE
  /\ uniforms = NoUniforms
  /\ steps = <<>>
  /\ failedAt = "none"
  /\ glInit = <<>>
  /\ glFrame = <<>>
  /\ frame = <<>>
  /\ drawList = <<>>
  /\ drawIdx = 1
  /\ rafPending = FALSE
  /\ isSubmitted = FALSE
  /\ bufferCalls = <<>>
  /\ tmCall = NoTmCall

SpecCM == InitCM /\ [][CMNext]_vars

\* One Sprite under every sequence of setter and draw calls.
InitSprite ==
  /\ sprite = NoSprite
  /\ drawn = <<>>
  /\ mpc = "off"
  /\ slotA = Empty
  /\ slotB = Empty
  /\ mR = Empty
  /\ vLast = Empty
  /\ components = ComponentManager_constructor
  /\ added = <<>>
  /\ lastGet = NoGet
  /\ pc = "off"
  /\ winW = 0
  /\ winH = 0
  /\ canvas = InitialCanvas
  /\ handler = FALSE
  /\ glReady = FALSE
  /\ uniforms = NoUniforms
  /\ steps = <<>>
  /\ failedAt = "none"
  /\ glInit = <<>>
  /\ glFrame = <<>>
  /\ frame = <<>>
  /\ drawList = <<>>
  /\ drawIdx = 1
  /\ rafPending = FALSE
  /\ isSubmitted = FALSE
  /\ bufferCalls = <<>>
  /\ tmCall = NoTmCall

SpecSprite == InitSprite /\ [][SpNext]_vars

\* One TypingManager and the calls of its owner.
InitTyping ==
  /\ sprite = NoSprite
  /\ drawn = <<>>
  /\ mpc = "off"
  /\ slotA = Empty
  /\ slotB = Empty
  /\ mR = Empty
  /\ vLast = Empty
  /\ components = ComponentManager_constructor
  /\ added = <<>>
  /\ lastGet = NoGet
  /\ pc = "off"
  /\ winW = 0
  /\ winH = 0
  /\ canvas = InitialCanvas
  /\ handler = FALSE
  /\ glReady = FALSE
  /\ uniforms = NoUniforms
  /\ steps = <<>>
  /\ failedAt = "none"
  /\ glInit = <<>>
  /\ glFrame = <<>>
  /\ frame = <<>>
  /\ drawList = <<>>
  /\ drawIdx = 1
  /\ rafPending = FALSE
  /\ isSubmitted = TypingManager_constructor.isSubmitted
  /\ bufferCalls = TypingManager_constructor.calls
  /\ tmCall = NoTmCall

SpecTyping == InitTyping /\ [][TmNext]_vars

\* ------------------------------------------------- claims on the library

\* The entry (i, j) of the standard product a x b, written out.
ProductAt(a, b, i, j) ==
  Matrix_at(a, i, 0) * Matrix_at(b, 0, j) + Matrix_at(a, i, 1) * Matrix_at(b, 1, j)
    + Matrix_at(a, i, 2) * Matrix_at(b, 2, j) + Matrix_at(a, i, 3) * Matrix_at(b, 3, j)

\* C4: A.mul(B) returns a new 16-entry matrix R with
\* R.at(i, j) = sum over k of A.at(i, k) * B.at(k, j) for all rows i and
\* columns j, and the call changes neither A nor B.
C4_MulIsProduct ==
  /\ [](mpc = "done" =>
         /\ mR.some
         /\ DOMAIN mR.m = 0 .. 15
         /\ \A i \in 0 .. 3, j \in 0 .. 3 :
              Matrix_at(mR.m, i, j) = ProductAt(slotA.m, slotB.m, i, j))
  /\ [][mpc = "mul" => slotA' = slotA /\ slotB' = slotB]_vars

\* C4 witness: a product of two matrices that do not commute has been taken.
C4_Witness ==
  /\ mpc = "done"
  /\ slotA.call.fn = "Matrix" /\ slotB.call.fn = "rotatorZ"
  /\ Matrix_mul(slotB.m, slotA.m) # mR.m

\* The standard right-handed rotations about X, Y and Z, entry by entry.
StdRotX(r, i, j) ==
  CASE <<i, j>> \in {<<1, 1>>, <<2, 2>>} -> cos(r)
    [] <<i, j>> = <<1, 2>> -> -sin(r)
    [] <<i, j>> = <<2, 1>> -> sin(r)
    [] OTHER -> IF i = j THEN 1 ELSE 0
StdRotY(r, i, j) ==
  CASE <<i, j>> \in {<<0, 0>>, <<2, 2>>} -> cos(r)
    [] <<i, j>> = <<0, 2>> -> sin(r)
    [] <<i, j>> = <<2, 0>> -> -sin(r)
    [] OTHER -> IF i = j THEN 1 ELSE 0
StdRotZ(r, i, j) ==
  CASE <<i, j>> \in {<<0, 0>>, <<1, 1>>} -> cos(r)
    [] <<i, j>> = <<0, 1>> -> -sin(r)
    [] <<i, j>> = <<1, 0>> -> sin(r)
    [] OTHER -> IF i = j THEN 1 ELSE 0

\* C5 (as claimed): read through at(row, column), rotatorX(r), rotatorY(r)
\* and rotatorZ(r) are the standard right-handed rotation matrices.
C5_RotatorsStandard ==
  \A slot \in {slotA, slotB} : \A i \in 0 .. 3, j \in 0 .. 3 :
    /\ slot.call.fn = "rotatorX" =>
         Matrix_at(slot.m, i, j) = StdRotX(slot.call.args[1], i, j)
    /\ slot.call.fn = "rotatorY" =>
         Matrix_at(slot.m, i, j) = StdRotY(slot.call.args[1], i, j)
    /\ slot.call.fn = "rotatorZ" =>
         Matrix_at(slot.m, i, j) = StdRotZ(slot.call.args[1], i, j)

\* C6: identity() is a left and a right unit of mul: identity().mul(M) and
\* M.mul(identity()) equal M entry by entry.
C6_IdentityLaw ==
  mpc = "done" =>
    /\ slotA.call.fn = "identity" => mR.m = slotB.m
    /\ slotB.call.fn = "identity" => mR.m = slotA.m

\* C6 witness: translator(1, -1, 1).mul(identity()) has been computed.
C6_Witness ==
  /\ mpc = "done"
  /\ slotA.call.fn = "translator" /\ slotA.call.args = <<1, -1, 1>>
  /\ slotB.call.fn = "identity"

\* What `new T(raw)` must leave in a variable, T keeping `need` values.
Constructed(slot, need) ==
  IF slot.call.raw.undef
  THEN slot.some /\ slot.m = [k \in 0 .. need - 1 |-> 0]
  ELSE IF Length(slot.call.raw.arr) < need
       THEN ~slot.some /\ mpc = "threw"
       ELSE /\ slot.some
            /\ DOMAIN slot.m = 0 .. need - 1
            /\ \A k \in 0 .. need - 1 : slot.m[k] = slot.call.raw.arr[k]

\* C7: new Vector(raw) throws when raw has fewer than 4 values and otherwise
\* keeps exactly the first 4; new Matrix(raw) throws under 16 values and
\* otherwise keeps exactly the first 16; with no argument both are all
\* zeros; a throw leaves no instance.
C7_Constructors ==
  /\ slotA.call.fn = "Matrix" => Constructed(slotA, 16)
  /\ slotB.call.fn = "Matrix" => Constructed(slotB, 16)
  /\ vLast.call.fn = "Vector" => Constructed(vLast, 4)

\* C7 witness: a Matrix was built from 17 values, then one from 15 threw.
C7_Witness ==
  /\ slotA.call.fn = "Matrix" /\ Length(slotA.call.raw.arr) = 17 /\ slotA.some
  /\ slotB.call.fn = "Matrix" /\ Length(slotB.call.raw.arr) = 15 /\ ~slotB.some
  /\ mpc = "threw"

\* ------------------------------------------------ claims on the registry

\* T is the class of the object or one of its superclasses.
IsA(class, type) ==
  <<class, type>> \in {<<"Sprite", "Sprite">>, <<"SubSprite", "SubSprite">>,
                       <<"SubSprite", "Sprite">>, <<"Other", "Other">>}

\* C1: get(T) returns exactly the components handed to add so far that
\* are instances of T, in the order of the add calls, duplicates kept
\* (empty when none matches); and a get leaves the registry as it was.
C1_GetIsOrderedFilter ==
  /\ [](lastGet.type # "none" =>
         lastGet.res = SelectSeq(SubSeq(added, 1, lastGet.n),
                                 LAMBDA c : IsA(c.class, lastGet.type)))
  /\ [][lastGet' # lastGet => components' = components]_vars

\* C1 witness: get(Sprite) after adding a Sprite, an unrelated component, a
\* subclass instance and the first Sprite again returns three entries.
C1_Witness ==
  /\ Len(added) = 4
  /\ added[1] = added[4]
  /\ added[1].class = "Sprite" /\ added[2].class = "Other"
  /\ added[3].class = "SubSprite"
  /\ lastGet.type = "Sprite" /\ lastGet.n = 4
  /\ Len(lastGet.res) = 3

\* -------------------------------------------------- claims on the Sprite

\* m is the matrix with the diagonal d and the last column c, zero elsewhere.
IsDiagPlusColumn(m, d, c) ==
  /\ DOMAIN m = 0 .. 15
  /\ \A i \in 0 .. 3, j \in 0 .. 3 :
       Matrix_at(m, i, j) = IF i = j THEN d[i + 1]
                            ELSE IF j = 3 THEN c[i + 1] ELSE 0

\* C3: each Sprite.draw makes exactly one renderer.draw call, whose
\* arguments are, in this order, scaler(scl[0], scl[1], 1),
\* rotatorX(rot[0]).mul(rotatorY(rot[1]).mul(rotatorZ(rot[2]))),
\* translator(pos[0], pos[1], pos[2]) and the color, all from the field
\* values at the time of the call (the values of the latest setters).
C3_DrawForwardsCurrentFields ==
  [][drawn' # drawn =>
       /\ Len(drawn') = 1
       /\ IsDiagPlusColumn(drawn'[1].matScl,
                            <<sprite.scl[0], sprite.scl[1], 1, 1>>, <<0, 0, 0>>)
       /\ drawn'[1].matRot =
            Matrix_mul(Matrix_rotatorX(sprite.rot[0]),
                       Matrix_mul(Matrix_rotatorY(sprite.rot[1]),
                                  Matrix_rotatorZ(sprite.rot[2])))
       /\ IsDiagPlusColumn(drawn'[1].matTrs, <<1, 1, 1, 1>>,
                            <<sprite.pos[0], sprite.pos[1], sprite.pos[2]>>)
       /\ drawn'[1].vecCol = [k \in 0 .. 3 |-> sprite.col[k]]]_vars

\* C3 witness: a draw made with one set of field values is on record while
\* the setters have since changed position, rotation, scale and color.
C3_Witness ==
  /\ Len(drawn) = 1
  /\ drawn[1].matTrs = Matrix_translator(1, -2, 3)
  /\ drawn[1].matScl = Matrix_scaler(200, 50, 1)
  /\ drawn[1].matRot # Matrix_identity
  /\ sprite # NoSprite
  /\ sprite.pos = Arr(<<0, 0, 40>>) /\ sprite.scl = Arr(<<100, 100>>)
  /\ sprite.rot = Arr(<<1, 1, 0>>) /\ sprite.col = Arr(<<1, 0, 0, 1>>)

\* ------------------------------------------------- claims on the program

IsPrefix(a, b) == Len(a) <= Len(b) /\ \A k \in 1 .. Len(a) : a[k] = b[k]

\* The frame of the start-up scene: clear, the red sprite, the green sprite,
\* flush, and then the request for the next frame.
StartupFrame ==
  <<Event("clear"),
    DrawEvent(DrawCall(Matrix_scaler(100, 100, 1), Matrix_identity,
                       Matrix_translator(0, 0, 40), Arr(<<1, 0, 0, 1>>))),
    DrawEvent(DrawCall(Matrix_scaler(200, 50, 1), Matrix_identity,
                       Matrix_translator(0, 0, -20), Arr(<<0, 1, 0, 1>>))),
    Event("flush"),
    Event("raf")>>

\* C2: in every frame the renderer receives clear() first, then one draw()
\* per registered Sprite in insertion order (two for the start-up scene),
\* then flush(); the next frame is requested only after flush().
C2_FrameOrder ==
  /\ IsPrefix(frame, StartupFrame)
  /\ pc = "idle" => frame = StartupFrame
  /\ rafPending => frame = StartupFrame
  /\ pc = "raf" =>
       Len(SelectSeq(frame, LAMBDA e : e.op = "draw"))
         = Len(SelectSeq(added, LAMBDA c : c.class = "Sprite"))

\* C2 witness: a frame of the start-up scene is complete, the next requested.
C2_Witness ==
  /\ pc = "idle" /\ rafPending
  /\ Len(frame) = 5
  /\ frame[2].op = "draw" /\ frame[3].op = "draw"
  /\ frame[2].call.matTrs # frame[3].call.matTrs

\* The constructor steps in the order the specification gives them.
ClaimedOrder ==
  <<"getCanvas", "resizing", "getContext", "vertShader", "fragShader", "program",
    "uniScl", "uniRot", "uniTrs", "uniProj", "uniCol",
    "uploadProj", "uploadCol", "renderState",
    "vtxBuffer", "idxBuffer", "bindBuffers", "attribs">>

\* C8: the constructor runs its steps in the fixed order; a step that fails
\* is the last one entered, main gets no renderer, and from then on no
\* step, no GL command, no clear / draw / flush and no frame request happens.
C8_InitAbortsOnFailure ==
  /\ [](IsPrefix(steps, ClaimedOrder))
  /\ [](failedAt # "none" =>
         /\ pc = "threw"
         /\ steps[Len(steps)] = failedAt
         /\ ~glReady
         /\ frame = <<>> /\ glFrame = <<>> /\ ~rafPending
         /\ components = <<>>)
  /\ []((glReady \/ frame # <<>> \/ glFrame # <<>> \/ rafPending) =>
         steps = ClaimedOrder /\ failedAt = "none")
  /\ [][failedAt # "none" =>
          /\ pc' = pc /\ steps' = steps /\ glInit' = glInit
          /\ frame' = frame /\ glFrame' = glFrame /\ rafPending' = rafPending]_vars

\* C8 witness: the index buffer could not be created, after sixteen steps.
C8_Witness ==
  /\ failedAt = "idxBuffer" /\ pc = "threw"
  /\ Len(steps) = 16 /\ handler
  /\ Len(glInit) > 0

\* The draw calls of the current frame, and the place of a GL command
\* among the draw commands.
DrawEvents == SelectSeq(frame, LAMBDA e : e.op = "draw")
Ordinal(p) == Cardinality({q \in 1 .. p : glFrame[q].op = "drawElements"})
ProjWrites(cmds) == Len(SelectSeq(cmds, LAMBDA c : c.loc = "uniProj" /\ c.op # "getUniformLocation"))

\* C9: every GLWrapper.draw writes its four arguments to uniScl, uniRot,
\* uniTrs and uniCol and then issues one indexed draw of 6 indices, which
\* runs with the uniform values of its own call; uniProj is written once,
\* by the constructor.
C9_DrawUploadsThenDraws ==
  /\ \A p \in 1 .. Len(glFrame) :
       glFrame[p].op = "drawElements" =>
         /\ p > 4
         /\ Ordinal(p) <= Len(DrawEvents)
         /\ LET call == DrawEvents[Ordinal(p)].call
            IN /\ glFrame[p - 4].op = "uniformMatrix4fv" /\ glFrame[p - 4].loc = "uniScl"
               /\ glFrame[p - 4].val = call.matScl
               /\ glFrame[p - 3].op = "uniformMatrix4fv" /\ glFrame[p - 3].loc = "uniRot"
               /\ glFrame[p - 3].val = call.matRot
               /\ glFrame[p - 2].op = "uniformMatrix4fv" /\ glFrame[p - 2].loc = "uniTrs"
               /\ glFrame[p - 2].val = call.matTrs
               /\ glFrame[p - 1].op = "uniform4fv" /\ glFrame[p - 1].loc = "uniCol"
               /\ glFrame[p - 1].val = call.vecCol
               /\ glFrame[p].val = Arr(<<6>>)
               /\ glFrame[p].seen["uniScl"] = call.matScl
               /\ glFrame[p].seen["uniRot"] = call.matRot
               /\ glFrame[p].seen["uniTrs"] = call.matTrs
               /\ glFrame[p].seen["uniCol"] = call.vecCol
  /\ Len(SelectSeq(glFrame, LAMBDA c : c.op = "drawElements")) = Len(DrawEvents)
  /\ Len(SelectSeq(glFrame, LAMBDA c : c.op \in {"uniformMatrix4fv", "uniform4fv"}))
       = 4 * Len(DrawEvents)
  /\ ProjWrites(glFrame) = 0
  /\ ProjWrites(glInit) = IF \E k \in 1 .. Len(steps) : steps[k] = "uploadProj" THEN 1 ELSE 0
  /\ glReady => uniforms["uniProj"] = matProj

\* C9 witness: both sprites of a frame are drawn, each with its own color.
C9_Witness ==
  /\ pc = "idle"
  /\ Len(glFrame) = 12
  /\ glFrame[6].op = "drawElements" /\ glFrame[11].op = "drawElements"
  /\ glFrame[6].seen["uniCol"] = Arr(<<1, 0, 0, 1>>)
  /\ glFrame[11].seen["uniCol"] = Arr(<<0, 1, 0, 1>>)

\* r <= t for fractions
RatLeq(r, t) == r[1] * t[2] <= t[1] * r[2]

\* C10 (as claimed): the canvas size (w, h) is the largest with w <= W,
\* h <= H and 960 * w = 1280 * h, so w = W or h = H.
C10_CanvasIsExactFit ==
  handler =>
    /\ canvas.width <= winW /\ canvas.height <= winH
    /\ canvas.width = winW \/ canvas.height = winH
    /\ VIEWPORT_HEIGHT * canvas.width = VIEWPORT_WIDTH * canvas.height

\* C10 (amended): once the listener is installed, which happens before the
\* context is acquired, the style size (w, h) of the canvas is the largest
\* with w <= W, h <= H and 960 * w = 1280 * h for the latest window size
\* W x H, and canvas.width and canvas.height are w and h with the fraction
\* dropped.
C10_ResizeFit ==
  /\ handler =>
       LET w == canvas.styleWidth
           h == canvas.styleHeight
       IN /\ w[2] > 0 /\ h[2] > 0
          /\ RatLeq(w, Rat(winW, 1)) /\ RatLeq(h, Rat(winH, 1))
          /\ w[1] = winW * w[2] \/ h[1] = winH * h[2]
          /\ VIEWPORT_HEIGHT * w[1] * h[2] = VIEWPORT_WIDTH * h[1] * w[2]
          /\ canvas.width * w[2] <= w[1] /\ w[1] < (canvas.width + 1) * w[2]
          /\ canvas.height * h[2] <= h[1] /\ h[1] < (canvas.height + 1) * h[2]
  /\ (\E k \in 1 .. Len(steps) : steps[k] = "getContext") => handler
  /\ ~handler => canvas = InitialCanvas

\* C10 witness: frames are running and the window is 3 x 4, which fits a
\* canvas of 3 x 2.25: canvas.height is 2.
C10_Witness ==
  /\ pc = "idle" /\ handler
  /\ winW = 3 /\ winH = 4
  /\ canvas.width = 3 /\ canvas.height = 2
  /\ canvas.styleHeight[1] * 4 = 9 * canvas.styleHeight[2]

\* ---------------------------------------------------- claims on the flag

\* The component as it was handed to add, with the flag it has now.
SameButFlag(now, before) ==
  /\ now.class = before.class
  /\ now.pos = before.pos
  /\ now.rot = before.rot
  /\ now.scl = before.scl
  /\ now.col = before.col

\* C11: a Sprite is enabled when constructed; whatever enable() and disable()
\* calls follow, its position, rotation, scale and color stay what they
\* were; comManager.get(Sprite) returns every registered sprite, enabled or
\* not, in order; and a finished run of loop has issued exactly one draw per
\* registered sprite, in order, with the arguments Sprite.draw builds.
C11_FlagIsAdvisory ==
  /\ Len(components) = Len(added)
  /\ \A k \in 1 .. Len(added) :
       /\ Sprite_isEnabled(added[k])
       /\ SameButFlag(components[k], added[k])
  /\ pc \in {"draw", "flush", "raf"} => lastGet.res = components /\ drawList = components
  /\ pc = "raf" =>
       /\ Len(DrawEvents) = Len(components)
       /\ \A k \in 1 .. Len(components) :
            LET n == components[k]
                c == DrawEvents[k].call
            IN /\ c.matScl = Matrix_scaler(n.scl[0], n.scl[1], 1)
               /\ c.matTrs = Matrix_translator(n.pos[0], n.pos[1], n.pos[2])
               /\ c.vecCol = n.col

\* C11 witness: a run of loop that has drawn both sprites, the first of them
\* disabled and the second disabled and enabled again or never touched.
C11_Witness ==
  /\ pc = "raf"
  /\ Len(components) = 2
  /\ ~Sprite_isEnabled(components[1])
  /\ Sprite_isEnabled(components[2])
  /\ Len(DrawEvents) = 2
  /\ lastGet.res = components

\* ------------------------------------------- claims on the TypingManager

\* The position of the first Enter among the keys, or one past the last key.
FirstEnter(keys) ==
  IF \E k \in 1 .. Len(keys) : keys[k] = "Enter"
  THEN CHOOSE k \in 1 .. Len(keys) :
         keys[k] = "Enter" /\ \A q \in 1 .. k - 1 : keys[q] # "Enter"
  ELSE Len(keys) + 1

\* C12: an update that finds the manager not submitted pops the buffer for
\* each Backspace and pushes each other key, in order, up to the first Enter,
\* is submitted exactly if there was an Enter, and does nothing with the keys
\* after it; an update that finds the manager submitted makes no call on the
\* buffer and leaves it submitted; reject() makes no call on the buffer and
\* clear() calls the buffer's clear(), both leaving the manager not submitted;
\* no other operation takes a submitted manager back to not submitted.
C12_SubmissionLatch ==
  LET keys == tmCall.keys
      e == FirstEnter(keys)
      submitted == TypingManager_checkSubmitted([isSubmitted |-> isSubmitted])
  IN /\ tmCall.op = "update" /\ ~tmCall.before =>
          /\ submitted = (e <= Len(keys))
          /\ Len(bufferCalls) = e - 1
          /\ \A k \in 1 .. e - 1 :
               bufferCalls[k] = IF keys[k] = "Backspace"
                                THEN [op |-> "pop", c |-> ""]
                                ELSE [op |-> "push", c |-> keys[k]]
     /\ tmCall.op = "update" /\ tmCall.before => submitted /\ bufferCalls = <<>>
     /\ tmCall.op = "reject" => ~submitted /\ bufferCalls = <<>>
     /\ tmCall.op = "clear" => ~submitted /\ bufferCalls = <<[op |-> "clear", c |-> ""]>>
     /\ tmCall.before /\ ~submitted => tmCall.op \in {"reject", "clear"}

\* C12 witness: a submitted manager was handed keys by update, a Backspace
\* and a letter among them, and made no call on the buffer.
C12_Witness ==
  /\ tmCall.op = "update"
  /\ tmCall.before
  /\ tmCall.keys = <<"Backspace", "a", "Enter">>
  /\ isSubmitted
  /\ bufferCalls = <<>>

====
